---- MODULE Spec2Model ----
(***************************************************************************)
(* Webhook delivery engine of the SMS backend (WebhookService, the Webhook *)
(* and WebhookEvent collections and the /api/webhooks routes).             *)
(*                                                                         *)
(* The two MongoDB collections are the durable state.  Every mongoose      *)
(* document a handler holds is an in-memory copy: it is read once (find,   *)
(* findById, populate) and written back by save(), which sends only the    *)
(* paths whose value the handler changed.  Handlers are split at their     *)
(* awaits, so that emits, immediate sends, retry sweeps and admin calls    *)
(* interleave the way the event loop lets them.                            *)
(***************************************************************************)
EXTENDS Integers, Sequences, FiniteSets, TLC

VARIABLES
    webhooks,       \* Webhook collection: _id -> document
    webhookIds,     \* number of _ids handed out to webhooks so far
    webhookEvents,  \* WebhookEvent collection: sequence of documents, _id = index
    secrets,        \* number of secrets generateSecret has produced so far
    now,            \* Date.now()
    emit,           \* the triggerEvent call in progress (or the last one returned)
    tasks,          \* sendWebhookEvent calls: one per setImmediate handoff, one per sweep
    sweepQ,         \* retryFailedEvents: the rows of retryEvents not yet handled
    reqs,           \* per row: HTTP requests sent for it (receiver's view)
    oks,            \* per row: HTTP requests for it answered with a 2xx status
    lastAdmin,      \* the last admin API call and its response
    adminCalls      \* number of update, delete and rotate calls made so far

vars == <<webhooks, webhookIds, webhookEvents, secrets, now, emit, tasks, sweepQ,
          reqs, oks, lastAdmin, adminCalls>>

----------------------------------------------------------------------------
\* Bounds of the model

NumWebhooks == 2         \* webhooks ever created
MaxEvents == 2           \* rows ever inserted
DispatchWebhooks == 1    \* the same two, where retry sweeps run as well
DispatchEvents == 1
NumSweeps == 2           \* retry sweeps in progress at once
MaxAdminCalls == 1       \* update, delete and rotate calls

----------------------------------------------------------------------------
\* Program constants

DefaultRetryCount == 3
DefaultRetryBackoffMs == 5000
MinRetryCount == 1
MaxRetryCount == 10
MinRetryBackoffMs == 1000
MaxRetryBackoffMs == 3600000
OneHourMs == 3600000     \* "1 hour", as the schema words its largest retryBackoffMs
TransportError == -1
NullWebhookError == -2   \* lastAttemptError of a TypeError on a null webhook
NoError == 0
NoTime == -1

Users == {"t1", "t2"}
EventEnum == {"sms.sent", "sms.delivered", "sms.failed", "sms.bounced", "sms.read"}
DefaultEvents == {"sms.delivered", "sms.failed"}

\* Inputs the environment supplies
EmittedTypes == {"sms.delivered", "sms.failed"}
Payloads == {[id |-> "x1"]}
ResponseCodes == {200, 503}
FinalStatusCodes == {200, 304, 404, 503}   \* one of each class: 2xx, 3xx, 4xx, 5xx

NoStats == [totalCalls |-> 0, successfulCalls |-> 0, failedCalls |-> 0, lastCallStatus |-> 0]

----------------------------------------------------------------------------
\* Helpers

Min(a, b) == IF a <= b THEN a ELSE b

Pow2(n) == 2 ^ n

RECURSIVE SortedSeq(_)
SortedSeq(S) ==
    IF S = {} THEN <<>>
    ELSE LET m == CHOOSE x \in S : \A y \in S : x <= y
         IN <<m>> \o SortedSeq(S \ {m})

----------------------------------------------------------------------------
\* Signing and serialisation

\* JSON.stringify of an event payload object, as a sequence of tokens.
JSONstringifyData(data) == <<"{", "id", data.id, "}">>

\* JSON.stringify({event, timestamp, data}): the envelope sendWebhookEvent builds.
JSONstringifyEnvelope(env) ==
    <<"{", "event", env.event, "timestamp", ToString(env.timestamp), "data">>
        \o JSONstringifyData(env.data) \o <<"}">>

\* crypto.createHmac('sha256', secret).update(payload).digest('hex'): a keyed
\* hash is modelled as an injective function of the key and the message.
generateSignature(payload, secret) == <<"hmac-sha256", secret, payload>>

----------------------------------------------------------------------------
\* Documents

\* new Webhook({...}) with the schema defaults.
NewWebhook(username, url, events, secret, retryCount, retryBackoffMs) ==
    [username |-> username, url |-> url, events |-> events, isActive |-> TRUE, secret |-> secret,
     retryEnabled |-> TRUE, retryCount |-> retryCount, retryBackoffMs |-> retryBackoffMs,
     stats |-> NoStats]

\* A URL is its scheme and what follows "://".  The schema's validator,
\* /^https?:\/\/.+/.
UrlValid(url) == url[1] \in {"http", "https"} /\ url[2] # ""

\* The schema validators that save() runs on a Webhook document.
WebhookValid(doc) ==
    /\ UrlValid(doc.url)
    /\ doc.events # {} /\ doc.events \subseteq EventEnum
    /\ doc.retryCount >= MinRetryCount /\ doc.retryCount <= MaxRetryCount
    /\ doc.retryBackoffMs >= MinRetryBackoffMs /\ doc.retryBackoffMs <= MaxRetryBackoffMs

\* new WebhookEvent({...}) as queueWebhookEvent builds it, with the schema defaults.
NewWebhookEvent(webhookId, eventType, payload, maxAttempts) ==
    [webhookId |-> webhookId, eventType |-> eventType, payload |-> payload,
     status |-> "pending", attempts |-> 0, maxAttempts |-> maxAttempts,
     nextRetryTime |-> NoTime, lastAttemptTime |-> NoTime, lastAttemptError |-> NoError,
     httpStatusCode |-> 0]

\* document.save() of a loaded document: mongoose writes the paths whose value
\* the handler changed and leaves every other stored path as it is.
save(stored, loaded, doc) ==
    [f \in DOMAIN stored |-> IF doc[f] # loaded[f] THEN doc[f] ELSE stored[f]]

\* A mongoose document in a handler's memory: <<>> is null, else <<[id, doc]>>.
Loaded(id, doc) == <<[id |-> id, doc |-> doc]>>

\* Webhook.findById / populate('webhookId'): null when the webhook is gone.
findById(id) == IF id \in DOMAIN webhooks THEN Loaded(id, webhooks[id]) ELSE <<>>

----------------------------------------------------------------------------
\* sendWebhookEvent, piece by piece

\* axios resolves for a 2xx status and rejects for anything else or no response.
AxiosResolves(code) == code >= 200 /\ code < 300

\* The request axios.post issues: the body is the stored payload, the signature
\* is computed over the envelope.
OutboundRequest(wh, ev, t) ==
    [body |-> JSONstringifyData(ev.doc.payload),
     signature |-> generateSignature(
        JSONstringifyEnvelope([event |-> ev.doc.eventType, timestamp |-> t,
                               data |-> ev.doc.payload]),
        wh.doc.secret),
     event |-> ev.doc.eventType,
     delivery |-> ev.id,
     sentAt |-> t]

\* retryBackoffMs * Math.pow(2, attempts - 1)
backoffMs(retryBackoffMs, attempts) == retryBackoffMs * Pow2(attempts - 1)

\* A comparison that lets one attempt too many through.
RetryAllowedOffByOne(attempts, maxAttempts) == attempts <= maxAttempts

\* The comparison that decides between a retry and giving up.
RetryAllowed(attempts, maxAttempts) == attempts < maxAttempts

\* The try block after the response: the in-memory row on success.
MarkSuccess(doc, code) == [doc EXCEPT !.status = "success", !.httpStatusCode = code]

\* The catch block: the in-memory row after a failed attempt; error is the
\* status code of the rejected response, or TransportError.
MarkAttemptFailed(doc, retryBackoffMs, t, error) ==
    LET a == doc.attempts + 1 IN
    IF RetryAllowed(a, doc.maxAttempts)
    THEN [doc EXCEPT !.attempts = a, !.lastAttemptTime = t, !.lastAttemptError = error,
                     !.nextRetryTime = t + backoffMs(retryBackoffMs, a),
                     !.status = "pending"]
    ELSE [doc EXCEPT !.attempts = a, !.lastAttemptTime = t, !.lastAttemptError = error,
                     !.status = "failed"]

\* A stats update that counts the call but forgets which way it went.
IncStatsTotalOnly(stats, success, code) ==
    IF success
    THEN [stats EXCEPT !.totalCalls = @ + 1, !.successfulCalls = @ + 1,
                       !.lastCallStatus = code]
    ELSE [stats EXCEPT !.totalCalls = @ + 1, !.lastCallStatus = TransportError]

\* Webhook.findByIdAndUpdate(id, {$inc: ..., 'stats.lastCallStatus': ...})
IncStats(stats, success, code) ==
    IF success
    THEN [stats EXCEPT !.totalCalls = @ + 1, !.successfulCalls = @ + 1,
                       !.lastCallStatus = code]
    ELSE [stats EXCEPT !.totalCalls = @ + 1, !.failedCalls = @ + 1,
                       !.lastCallStatus = TransportError]

----------------------------------------------------------------------------
\* Tasks: the calls of sendWebhookEvent that can be in progress

Imm(e) == <<"imm", e>>
Sweep(s) == <<"sweep", s>>
ImmIds == {Imm(e) : e \in 1..MaxEvents}
SweepIds == {Sweep(s) : s \in 1..NumSweeps}
TaskIds == ImmIds \cup SweepIds

IdleTask == [pc |-> "idle", ev |-> <<>>, wh |-> <<>>, req |-> <<>>, seen |-> <<>>,
             code |-> 0]

\* A call of sendWebhookEvent(webhook, webhookEvent) about to run.
StartTask(wh, ev) == [IdleTask EXCEPT !.pc = "start", !.wh = wh, !.ev = ev]

IdleEmit == [pc |-> "idle", username |-> "t1", eventType |-> "sms.delivered",
             payload |-> [id |-> "x1"], found |-> <<>>, matching |-> {},
             lookupFailed |-> FALSE, inserted |-> <<>>, errors |-> 0, thrown |-> ""]

IdleAdmin == [op |-> "none", caller |-> "t1", webhookId |-> 0, owner |-> "",
              code |-> 0, data |-> <<>>, changed |-> FALSE]

Init ==
    /\ webhooks = <<>>
    /\ webhookIds = 0
    /\ webhookEvents = <<>>
    /\ secrets = 0
    /\ now = 0
    /\ emit = IdleEmit
    /\ tasks = [t \in TaskIds |-> IdleTask]
    /\ sweepQ = [s \in 1..NumSweeps |-> <<>>]
    /\ reqs = [e \in 1..MaxEvents |-> 0]
    /\ oks = [e \in 1..MaxEvents |-> 0]
    /\ lastAdmin = IdleAdmin
    /\ adminCalls = 0

----------------------------------------------------------------------------
\* WebhookService: subscription registry

\* crypto.randomBytes(16).toString('hex'): a value never produced before.
generateSecret == secrets + 1

\* createWebhook(data): the document it saves.
createWebhookDoc(data) ==
    NewWebhook(data.username, data.url,
               IF data.hasEvents THEN data.events ELSE DefaultEvents,
               generateSecret,
               IF data.retryCount = 0 THEN DefaultRetryCount ELSE data.retryCount,
               IF data.retryBackoffMs = 0 THEN DefaultRetryBackoffMs
                                          ELSE data.retryBackoffMs)

\* An ownership test that lets every caller through.
OwnsAnything(doc, username) == doc.username \in Users

\* The ownership test of getWebhookById, updateWebhook, deleteWebhook, rotateSecret.
Owns(doc, username) == doc.username = username

\* getWebhookById(webhookId, username): the error it throws ("" for none) and
\* the document it returns.
getWebhookById(webhookId, username) ==
    LET wh == findById(webhookId) IN
    IF wh = <<>> THEN [err |-> "Webhook not found", doc |-> <<>>]
    ELSE IF ~Owns(wh[1].doc, username)
         THEN [err |-> "Unauthorized", doc |-> <<>>]
         ELSE [err |-> "", doc |-> wh]

AllowedFields == {"url", "name", "description", "events", "isActive", "retryCount",
                  "retryBackoffMs", "notifyOnFailure"}

\* An update that copies every key of the patch (Object.assign).
ApplyUpdatesAnyKey(doc, updates) ==
    [f \in DOMAIN doc |-> IF f \in DOMAIN updates THEN updates[f] ELSE doc[f]]

\* The forEach over allowedFields in updateWebhook.
ApplyUpdates(doc, updates) ==
    [f \in DOMAIN doc |->
        IF f \in AllowedFields /\ f \in DOMAIN updates THEN updates[f] ELSE doc[f]]

\* updateWebhook(webhookId, username, updates): error, returned document, and
\* the collection after it.
updateWebhook(webhookId, username, updates) ==
    LET got == getWebhookById(webhookId, username) IN
    IF got.err # "" THEN [err |-> got.err, doc |-> <<>>, webhooks |-> webhooks]
    ELSE LET old == got.doc[1].doc
             new == ApplyUpdates(old, updates)
         IN IF ~WebhookValid(new)
            THEN [err |-> "Validation failed", doc |-> <<>>, webhooks |-> webhooks]
            ELSE [err |-> "", doc |-> Loaded(webhookId, new),
                  webhooks |-> [webhooks EXCEPT
                                  ![webhookId] = save(webhooks[webhookId], old, new)]]

\* deleteWebhook(webhookId, username)
deleteWebhook(webhookId, username) ==
    LET got == getWebhookById(webhookId, username) IN
    IF got.err # "" THEN [err |-> got.err, doc |-> <<>>, webhooks |-> webhooks]
    ELSE [err |-> "", doc |-> <<>>,
          webhooks |-> [w \in DOMAIN webhooks \ {webhookId} |-> webhooks[w]]]

\* rotateSecret(webhookId, username)
rotateSecret(webhookId, username) ==
    LET got == getWebhookById(webhookId, username) IN
    IF got.err # "" THEN [err |-> got.err, doc |-> <<>>, webhooks |-> webhooks]
    ELSE LET old == got.doc[1].doc
             new == [old EXCEPT !.secret = generateSecret]
         IN [err |-> "", doc |-> Loaded(webhookId, new),
             webhooks |-> [webhooks EXCEPT
                             ![webhookId] = save(webhooks[webhookId], old, new)]]

\* Inputs of the admin calls
CreateInputs ==
    { [username |-> "t1", url |-> <<"https", "h1">>, hasEvents |-> FALSE, events |-> {}, retryCount |-> 0,
       retryBackoffMs |-> 0],
      [username |-> "t1", url |-> <<"https", "h1">>, hasEvents |-> TRUE, events |-> {"sms.delivered"},
       retryCount |-> 3, retryBackoffMs |-> 3600000],
      [username |-> "t2", url |-> <<"https", "h1">>, hasEvents |-> TRUE, events |-> {"sms.delivered"},
       retryCount |-> 2, retryBackoffMs |-> 1000] }

UpdateInputs ==
    << [isActive |-> FALSE],
       [retryCount |-> 1],
       [retryCount |-> 1, secret |-> 7, username |-> "t2",
        stats |-> [NoStats EXCEPT !.totalCalls = 9]] >>

\* POST /api/webhooks handled by createWebhook
CreateWebhook(data, cap) ==
    /\ webhookIds < cap
    /\ WebhookValid(createWebhookDoc(data))
    /\ webhooks' = (webhookIds + 1 :> createWebhookDoc(data)) @@ webhooks
    /\ webhookIds' = webhookIds + 1
    /\ secrets' = secrets + 1
    /\ UNCHANGED <<webhookEvents, now, emit, tasks, sweepQ, reqs, oks, lastAdmin, adminCalls>>

\* A call of updateWebhook that the owner makes
UpdateWebhook(webhookId, username, i) ==
    LET r == updateWebhook(webhookId, username, UpdateInputs[i]) IN
    /\ r.err = ""
    /\ adminCalls < MaxAdminCalls
    /\ adminCalls' = adminCalls + 1
    /\ webhooks' = r.webhooks
    /\ UNCHANGED <<webhookIds, webhookEvents, secrets, now, emit, tasks, sweepQ,
                   reqs, oks, lastAdmin>>

\* A call of deleteWebhook that the owner makes
DeleteWebhook(webhookId, username) ==
    LET r == deleteWebhook(webhookId, username) IN
    /\ r.err = ""
    /\ adminCalls < MaxAdminCalls
    /\ adminCalls' = adminCalls + 1
    /\ webhooks' = r.webhooks
    /\ UNCHANGED <<webhookIds, webhookEvents, secrets, now, emit, tasks, sweepQ,
                   reqs, oks, lastAdmin>>

\* A call of rotateSecret that the owner makes
RotateSecret(webhookId, username) ==
    LET r == rotateSecret(webhookId, username) IN
    /\ r.err = ""
    /\ adminCalls < MaxAdminCalls
    /\ adminCalls' = adminCalls + 1
    /\ webhooks' = r.webhooks
    /\ secrets' = secrets + 1
    /\ UNCHANGED <<webhookIds, webhookEvents, now, emit, tasks, sweepQ, reqs, oks,
                   lastAdmin>>

----------------------------------------------------------------------------
\* WebhookService: event router

\* The subscriptions an emission is owed to, in the words of the data model:
\* the caller's, active, with the event type in their mask.
SubscribedNow(username, eventType) ==
    {w \in DOMAIN webhooks :
        /\ webhooks[w].username = username
        /\ webhooks[w].isActive = TRUE
        /\ \E ty \in webhooks[w].events : ty = eventType}

\* A lookup that forgets the isActive filter.
MatchingWebhooksIgnoringActive(username, eventType) ==
    {w \in DOMAIN webhooks :
        /\ webhooks[w].username = username
        /\ eventType \in webhooks[w].events}

\* A lookup that forgets the events filter.
MatchingWebhooksAnyEvent(username, eventType) ==
    {w \in DOMAIN webhooks :
        /\ webhooks[w].username = username
        /\ webhooks[w].isActive}

\* Webhook.find({username, isActive: true, events: eventType})
MatchingWebhooks(username, eventType) ==
    {w \in DOMAIN webhooks :
        /\ webhooks[w].username = username
        /\ webhooks[w].isActive
        /\ eventType \in webhooks[w].events}

\* The documents the find returns, in _id order.
FoundWebhooks(username, eventType) ==
    LET ids == SortedSeq(MatchingWebhooks(username, eventType))
    IN [i \in 1..Len(ids) |-> [id |-> ids[i], doc |-> webhooks[ids[i]]]]

\* A catch block that wraps the error and throws it on, as the catch blocks
\* of the admin methods do.
triggerEventRethrow(error) == error

\* A catch block that logs and goes on, as the one of triggerEvent does:
\* what it throws to its caller ("" for nothing).
triggerEventCatch(error) == ""

\* The catch block of queueWebhookEvent: it logs too.
queueWebhookEventCatch(error) == ""

\* triggerEvent(username, eventType, eventData) up to its first insert: the
\* lookup.  With nothing found the call returns at once; a lookup that throws
\* lands in the catch block.
TriggerEvent(username, eventType, eventData, cap) ==
    \E findOk \in BOOLEAN :
    LET found == IF findOk THEN FoundWebhooks(username, eventType) ELSE <<>> IN
    /\ emit.pc \in {"idle", "returned"}
    /\ Len(webhookEvents) < cap
    /\ Len(webhookEvents) + Len(found) <= cap
    /\ emit' = [pc |-> IF found = <<>> THEN "returned" ELSE "queue",
                username |-> username, eventType |-> eventType, payload |-> eventData,
                found |-> found,
                matching |-> SubscribedNow(username, eventType),
                lookupFailed |-> ~findOk,
                inserted |-> <<>>, errors |-> 0,
                thrown |-> IF findOk THEN "" ELSE triggerEventCatch("find failed")]
    /\ UNCHANGED <<webhooks, webhookIds, webhookEvents, secrets, now, tasks, sweepQ,
                   reqs, oks, lastAdmin, adminCalls>>

\* One turn of the loop of triggerEvent: queueWebhookEvent(webhook, ...).  The
\* insert either succeeds, and the send is handed to setImmediate, or throws
\* (a validation or store error) into the catch block of queueWebhookEvent;
\* what that one throws would end the loop in the catch block of triggerEvent.
QueueWebhookEvent(ok) ==
    /\ emit.pc = "queue"
    /\ LET wh == Head(emit.found)
           id == Len(webhookEvents) + 1
           row == NewWebhookEvent(wh.id, emit.eventType, emit.payload, wh.doc.retryCount)
           rest == Tail(emit.found)
           error == IF ok THEN "" ELSE queueWebhookEventCatch("insert failed")
       IN /\ IF ok
             THEN /\ webhookEvents' = Append(webhookEvents, row)
                  /\ tasks' = [tasks EXCEPT ![Imm(id)] = StartTask(<<wh>>, Loaded(id, row))]
             ELSE UNCHANGED <<webhookEvents, tasks>>
          /\ emit' = [emit EXCEPT
                        !.pc = IF rest = <<>> \/ error # "" THEN "returned" ELSE "queue",
                        !.found = IF error # "" THEN <<>> ELSE rest,
                        !.inserted = IF ok THEN Append(@, [id |-> id, row |-> row]) ELSE @,
                        !.errors = IF ok THEN @ ELSE @ + 1,
                        !.thrown = IF error # "" THEN triggerEventCatch(error) ELSE @]
    /\ UNCHANGED <<webhooks, webhookIds, secrets, now, sweepQ, reqs, oks, lastAdmin, adminCalls>>

----------------------------------------------------------------------------
\* WebhookService: dispatcher

\* What follows a finished sendWebhookEvent: a handoff task is over; a sweep
\* goes on with the next row of retryEvents, or returns.
Finish(t) ==
    IF t \in SweepIds /\ sweepQ[t[2]] # <<>>
    THEN /\ tasks' = [tasks EXCEPT ![t] = StartTask(Head(sweepQ[t[2]]).wh,
                                                     Head(sweepQ[t[2]]).ev)]
         /\ sweepQ' = [sweepQ EXCEPT ![t[2]] = Tail(@)]
    ELSE /\ tasks' = [tasks EXCEPT ![t] = IdleTask]
         /\ UNCHANGED sweepQ

\* sendWebhookEvent from its entry to the await of axios.post: sign and send.
SendRequest(t) ==
    /\ tasks[t].pc = "start"
    /\ tasks[t].wh # <<>>
    /\ LET wh == tasks[t].wh[1]
           ev == tasks[t].ev[1]
       IN /\ tasks' = [tasks EXCEPT
                ![t].pc = "http",
                ![t].req = <<OutboundRequest(wh, ev, now)>>,
                ![t].seen = <<[secret |-> IF wh.id \in DOMAIN webhooks
                                          THEN webhooks[wh.id].secret ELSE 0,
                               status |-> webhookEvents[ev.id].status,
                               nextRetryTime |-> webhookEvents[ev.id].nextRetryTime,
                               lastAttemptError |-> webhookEvents[ev.id].lastAttemptError]>>]
          /\ reqs' = [reqs EXCEPT ![ev.id] = @ + 1]
    /\ UNCHANGED <<webhooks, webhookIds, webhookEvents, secrets, now, emit, sweepQ,
                   oks, lastAdmin, adminCalls>>

\* sendWebhookEvent called with webhook = null (the row's webhook was deleted
\* before the sweep populated it): reading webhook.secret throws inside the
\* try, the catch block counts the attempt, and the next read of the null
\* webhook throws out of sendWebhookEvent: before the save when a retry is
\* scheduled (webhook.retryBackoffMs), after it when the row is given up
\* (webhook._id).
SendWithoutWebhook(t) ==
    /\ tasks[t].pc = "start"
    /\ tasks[t].wh = <<>>
    /\ LET ev == tasks[t].ev[1]
           a == ev.doc.attempts + 1
           doc == [ev.doc EXCEPT !.attempts = a, !.lastAttemptTime = now,
                                 !.lastAttemptError = NullWebhookError,
                                 !.status = "failed"]
       IN IF RetryAllowed(a, ev.doc.maxAttempts)
          THEN UNCHANGED webhookEvents
          ELSE webhookEvents' = [webhookEvents EXCEPT
                                   ![ev.id] = save(webhookEvents[ev.id], ev.doc, doc)]
    /\ Finish(t)
    /\ UNCHANGED <<webhooks, webhookIds, secrets, now, emit, reqs, oks, lastAdmin, adminCalls>>

\* The response (or the transport error) arrives: the row is updated in memory
\* and saved.
HttpResponse(t, code) ==
    /\ tasks[t].pc = "http"
    /\ LET wh == tasks[t].wh[1]
           ev == tasks[t].ev[1]
           doc == IF AxiosResolves(code) THEN MarkSuccess(ev.doc, code)
                  ELSE MarkAttemptFailed(ev.doc, wh.doc.retryBackoffMs, now, code)
       IN /\ webhookEvents' = [webhookEvents EXCEPT
                                 ![ev.id] = save(webhookEvents[ev.id], ev.doc, doc)]
          /\ tasks' = [tasks EXCEPT ![t].pc = "stats", ![t].code = code,
                                    ![t].req = <<>>, ![t].seen = <<>>,
                                    ![t].ev = Loaded(ev.id, doc)]
          /\ oks' = [oks EXCEPT ![ev.id] = IF AxiosResolves(code) THEN @ + 1 ELSE @]
    /\ UNCHANGED <<webhooks, webhookIds, secrets, now, emit, sweepQ, reqs, lastAdmin, adminCalls>>

\* A stats update done as a save of the webhook the call was handed: the
\* counters of that copy plus one, written over the stored ones.
UpdateStatsFromLoadedCopy(t) ==
    /\ tasks[t].pc = "stats"
    /\ LET id == tasks[t].wh[1].id IN
       webhooks' = IF id \in DOMAIN webhooks
                   THEN [webhooks EXCEPT ![id].stats =
                            IncStats(tasks[t].wh[1].doc.stats,
                                     AxiosResolves(tasks[t].code), tasks[t].code)]
                   ELSE webhooks
    /\ Finish(t)
    /\ UNCHANGED <<webhookIds, webhookEvents, secrets, now, emit, reqs, oks, lastAdmin, adminCalls>>

\* Webhook.findByIdAndUpdate(webhook._id, {$inc: ...}): one atomic update of the
\* stored stats, a no-op when the webhook is gone.  sendWebhookEvent returns.
UpdateStats(t) ==
    /\ tasks[t].pc = "stats"
    /\ LET id == tasks[t].wh[1].id IN
       webhooks' = IF id \in DOMAIN webhooks
                   THEN [webhooks EXCEPT ![id].stats =
                            IncStats(@, AxiosResolves(tasks[t].code), tasks[t].code)]
                   ELSE webhooks
    /\ Finish(t)
    /\ UNCHANGED <<webhookIds, webhookEvents, secrets, now, emit, reqs, oks, lastAdmin, adminCalls>>

----------------------------------------------------------------------------
\* WebhookService: retry sweep

\* A query that forgets to compare nextRetryTime with the clock.
DueForRetryIgnoringTime(row, t) ==
    /\ row.status = "pending"
    /\ row.nextRetryTime # NoTime

\* A query that leaves out the rows of webhooks that are not active.
DueForRetryActiveOnly(row, t) ==
    /\ row.status = "pending"
    /\ row.nextRetryTime # NoTime
    /\ row.nextRetryTime <= t
    /\ row.webhookId \in DOMAIN webhooks => webhooks[row.webhookId].isActive

\* WebhookEvent.find({status: 'pending', nextRetryTime: {$lte: now}}): a row
\* whose nextRetryTime was never set does not match $lte.
DueForRetry(row, t) ==
    /\ row.status = "pending"
    /\ row.nextRetryTime # NoTime
    /\ row.nextRetryTime <= t

\* retryEvents: the due rows, each with its webhook populated, in _id order.
RetryEvents(t) ==
    LET ids == SortedSeq({e \in 1..Len(webhookEvents) : DueForRetry(webhookEvents[e], t)})
    IN [i \in 1..Len(ids) |->
          [ev |-> Loaded(ids[i], webhookEvents[ids[i]]),
           wh |-> findById(webhookEvents[ids[i]].webhookId)]]

\* No call of retryFailedEvents is in progress in slot s: none was made yet,
\* or the last one has returned.
SweepFree(s) == tasks[Sweep(s)].pc \in {"idle", "returned"}

\* retryFailedEvents(): the query; the rows are then sent one after the other.
\* With no row found the loop has nothing to do and the call returns its
\* results ({processed: 0, ...}).
RetryFailedEvents(s) ==
    /\ SweepFree(s)
    /\ \A s2 \in 1..(s - 1) : ~SweepFree(s2)
    /\ LET retryEvents == RetryEvents(now) IN
       IF retryEvents = <<>>
       THEN /\ tasks' = [tasks EXCEPT ![Sweep(s)] = [IdleTask EXCEPT !.pc = "returned"]]
            /\ UNCHANGED sweepQ
       ELSE /\ tasks' = [tasks EXCEPT ![Sweep(s)] =
                            StartTask(retryEvents[1].wh, retryEvents[1].ev)]
            /\ sweepQ' = [sweepQ EXCEPT ![s] = Tail(retryEvents)]
    /\ UNCHANGED <<webhooks, webhookIds, webhookEvents, secrets, now, emit, reqs, oks,
                   lastAdmin, adminCalls>>

\* Time passes, up to the next scheduled retry.
Tick ==
    LET later == {x \in {webhookEvents[e].nextRetryTime : e \in 1..Len(webhookEvents)} :
                    x > now}
    IN /\ later # {}
       /\ now' = CHOOSE m \in later : \A x \in later : m <= x
       /\ UNCHANGED <<webhooks, webhookIds, webhookEvents, secrets, emit, tasks, sweepQ,
                      reqs, oks, lastAdmin, adminCalls>>

----------------------------------------------------------------------------
\* The /api/webhooks routes: each calls the service and answers with a status
\* code and, on success, data.

\* res.status(error.message.includes('not found') ? 404 : 403)
ErrorStatus(err) == IF err = "Webhook not found" THEN 404 ELSE 403

\* What a route leaves in lastAdmin: the call, the owner stored at the time of
\* the call ("" when there is no such webhook), the answer, and whether the
\* Webhook collection changed.
Answer(op, caller, webhookId, err, data, after) ==
    [op |-> op, caller |-> caller, webhookId |-> webhookId,
     owner |-> IF webhookId \in DOMAIN webhooks THEN webhooks[webhookId].username ELSE "",
     code |-> IF err = "" THEN 200 ELSE ErrorStatus(err),
     data |-> IF err = "" THEN data ELSE <<>>,
     changed |-> after # webhooks]

StoreUnchanged ==
    UNCHANGED <<webhooks, webhookIds, webhookEvents, secrets, now, emit, tasks, sweepQ,
                reqs, oks, adminCalls>>

\* getUserWebhooks(username): Webhook.find({username}).select('-secret')
getUserWebhooks(username) ==
    LET ids == SortedSeq({w \in DOMAIN webhooks : Owns(webhooks[w], username)})
    IN [i \in 1..Len(ids) |->
          [id |-> ids[i], doc |-> [webhooks[ids[i]] EXCEPT !.secret = 0]]]

\* getWebhookEvents(webhookId): the rows of one webhook
getWebhookEvents(webhookId) ==
    LET ids == SortedSeq({e \in 1..Len(webhookEvents) :
                            webhookEvents[e].webhookId = webhookId})
    IN [i \in 1..Len(ids) |-> [id |-> ids[i], doc |-> webhookEvents[ids[i]]]]

\* getWebhookStats(webhookId): after Webhook.findById it reads
\* mongoose.Types.ObjectId, and the service module never requires mongoose:
\* the ReferenceError is rethrown as "Failed to get webhook stats: ...".
getWebhookStats(webhookId) ==
    IF findById(webhookId) = <<>>
    THEN [err |-> "Webhook not found", doc |-> <<>>]
    ELSE [err |-> "mongoose is not defined", doc |-> <<>>]

\* POST /api/webhooks: the two checks of the route on url (and name), then
\* createWebhook, whose errors the route answers with 500.  data.url is <<>>
\* when the body has no url.
CreateRoute(caller, data) ==
    LET doc == createWebhookDoc([data EXCEPT !.username = caller])
        status == IF data.url = <<>> THEN 400
                  ELSE IF data.url[1] \notin {"http", "https"} THEN 400
                  ELSE IF ~WebhookValid(doc) THEN 500
                  ELSE 201
        id == webhookIds + 1
    IN
    /\ status = 201 => webhookIds < NumWebhooks
    /\ IF status = 201
       THEN /\ webhooks' = (id :> doc) @@ webhooks
            /\ webhookIds' = id
            /\ secrets' = secrets + 1
       ELSE UNCHANGED <<webhooks, webhookIds, secrets>>
    /\ lastAdmin' = [op |-> "create", caller |-> caller,
                     webhookId |-> IF status = 201 THEN id ELSE 0, owner |-> "",
                     code |-> status,
                     data |-> IF status = 201 THEN <<[id |-> id, doc |-> doc]>> ELSE <<>>,
                     changed |-> status = 201, input |-> data]
    /\ UNCHANGED <<webhookEvents, now, emit, tasks, sweepQ, reqs, oks, adminCalls>>

\* GET /api/webhooks
ListRoute(caller) ==
    /\ lastAdmin' = Answer("list", caller, 0, "", getUserWebhooks(caller), webhooks)
    /\ StoreUnchanged

\* GET /api/webhooks/:webhookId
GetRoute(caller, webhookId) ==
    LET r == getWebhookById(webhookId, caller) IN
    /\ lastAdmin' = Answer("get", caller, webhookId, r.err, r.doc, webhooks)
    /\ StoreUnchanged

\* PUT /api/webhooks/:webhookId
UpdateRoute(caller, webhookId, updates) ==
    LET r == updateWebhook(webhookId, caller, updates) IN
    /\ adminCalls < MaxAdminCalls
    /\ adminCalls' = adminCalls + 1
    /\ webhooks' = r.webhooks
    /\ lastAdmin' = Answer("update", caller, webhookId, r.err, r.doc, r.webhooks)
                        @@ [input |-> updates]
    /\ UNCHANGED <<webhookIds, webhookEvents, secrets, now, emit, tasks, sweepQ, reqs, oks>>

\* DELETE /api/webhooks/:webhookId
DeleteRoute(caller, webhookId) ==
    LET r == deleteWebhook(webhookId, caller) IN
    /\ adminCalls < MaxAdminCalls
    /\ adminCalls' = adminCalls + 1
    /\ webhooks' = r.webhooks
    /\ lastAdmin' = Answer("delete", caller, webhookId, r.err, <<>>, r.webhooks)
    /\ UNCHANGED <<webhookIds, webhookEvents, secrets, now, emit, tasks, sweepQ, reqs, oks>>

\* POST /api/webhooks/:webhookId/rotate-secret
RotateRoute(caller, webhookId) ==
    LET r == rotateSecret(webhookId, caller) IN
    /\ adminCalls < MaxAdminCalls
    /\ adminCalls' = adminCalls + 1
    /\ webhooks' = r.webhooks
    /\ secrets' = IF r.err = "" THEN secrets + 1 ELSE secrets
    /\ lastAdmin' = Answer("rotate", caller, webhookId, r.err, r.doc, r.webhooks)
    /\ UNCHANGED <<webhookIds, webhookEvents, now, emit, tasks, sweepQ, reqs, oks>>

\* A probe that counts in the webhook's stats as a delivery does.
sendTestWebhookCounted(webhookId, code) ==
    [webhooks EXCEPT ![webhookId].stats = IncStats(@, AxiosResolves(code), code)]

\* sendTestWebhook(webhookId, username) once the webhook is loaded: the
\* Webhook collection after the probe was answered with code.  The method
\* builds testData, signs it, posts it and returns the result: it saves
\* nothing.
sendTestWebhook(webhookId, code) == webhooks

\* POST /api/webhooks/:webhookId/test: answers with the probe's result.
TestRoute(caller, webhookId, code) ==
    LET r == getWebhookById(webhookId, caller)
        after == IF r.err = "" THEN sendTestWebhook(webhookId, code) ELSE webhooks
    IN
    /\ lastAdmin' = Answer("test", caller, webhookId, r.err,
                           <<[success |-> AxiosResolves(code), httpStatusCode |-> code]>>,
                           after)
    /\ webhooks' = after
    /\ UNCHANGED <<webhookIds, webhookEvents, secrets, now, emit, tasks, sweepQ,
                   reqs, oks, adminCalls>>

\* GET /api/webhooks/:webhookId/events
EventsRoute(caller, webhookId) ==
    LET r == getWebhookById(webhookId, caller) IN
    /\ lastAdmin' = Answer("events", caller, webhookId, r.err,
                           getWebhookEvents(webhookId), webhooks)
    /\ StoreUnchanged

\* GET /api/webhooks/:webhookId/stats
StatsRoute(caller, webhookId) ==
    LET r == getWebhookById(webhookId, caller)
        st == getWebhookStats(webhookId)
    IN
    /\ lastAdmin' = Answer("stats", caller, webhookId,
                           IF r.err # "" THEN r.err ELSE st.err, st.doc, webhooks)
    /\ StoreUnchanged

----------------------------------------------------------------------------
\* The engine with its retry sweeps.
Next ==
    \/ \E data \in CreateInputs : CreateWebhook(data, DispatchWebhooks)
    \/ \E w \in 1..NumWebhooks, u \in Users, i \in 1..Len(UpdateInputs) :
          UpdateWebhook(w, u, i)
    \/ \E w \in 1..NumWebhooks, u \in Users : DeleteWebhook(w, u)
    \/ \E w \in 1..NumWebhooks, u \in Users : RotateSecret(w, u)
    \/ \E u \in Users, ty \in EmittedTypes, p \in Payloads :
          TriggerEvent(u, ty, p, DispatchEvents)
    \/ \E ok \in BOOLEAN : QueueWebhookEvent(ok)
    \/ \E t \in TaskIds : SendRequest(t)
    \/ \E t \in TaskIds : SendWithoutWebhook(t)
    \/ \E t \in TaskIds, code \in ResponseCodes \cup {TransportError} : HttpResponse(t, code)
    \/ \E t \in TaskIds : UpdateStats(t)
    \/ \E s \in 1..NumSweeps : RetryFailedEvents(s)
    \/ Tick

Spec == Init /\ [][Next]_vars

\* Emission and the handoff sends that follow it, with several subscriptions.
NextEmit ==
    \/ \E data \in CreateInputs : CreateWebhook(data, NumWebhooks)
    \/ \E w \in 1..NumWebhooks, u \in Users, i \in 1..Len(UpdateInputs) :
          UpdateWebhook(w, u, i)
    \/ \E w \in 1..NumWebhooks, u \in Users : DeleteWebhook(w, u)
    \/ \E u \in Users, ty \in EmittedTypes, p \in Payloads :
          TriggerEvent(u, ty, p, MaxEvents)
    \/ \E ok \in BOOLEAN : QueueWebhookEvent(ok)
    \/ \E t \in ImmIds : SendRequest(t)
    \/ \E t \in ImmIds, code \in ResponseCodes \cup {TransportError} : HttpResponse(t, code)
    \/ \E t \in ImmIds : UpdateStats(t)

SpecEmit == Init /\ [][NextEmit]_vars

\* The admin API, with emissions filling the outbox.
NextAdmin ==
    \/ \E data \in CreateInputs : CreateWebhook(data, NumWebhooks)
    \/ \E u \in Users, ty \in EmittedTypes, p \in Payloads :
          TriggerEvent(u, ty, p, MaxEvents)
    \/ QueueWebhookEvent(TRUE)
    \/ \E u \in Users : ListRoute(u)
    \/ \E u \in Users, w \in 1..NumWebhooks : GetRoute(u, w)
    \/ \E u \in Users, w \in 1..NumWebhooks, i \in 1..Len(UpdateInputs) :
          UpdateRoute(u, w, UpdateInputs[i])
    \/ \E u \in Users, w \in 1..NumWebhooks : DeleteRoute(u, w)
    \/ \E u \in Users, w \in 1..NumWebhooks : RotateRoute(u, w)
    \/ \E u \in Users, w \in 1..NumWebhooks, code \in ResponseCodes \cup {TransportError} :
          TestRoute(u, w, code)
    \/ \E u \in Users, w \in 1..NumWebhooks : EventsRoute(u, w)
    \/ \E u \in Users, w \in 1..NumWebhooks : StatsRoute(u, w)

SpecAdmin == Init /\ [][NextAdmin]_vars

\* The engine when the retry sweep keeps being run and every HTTP request
\* gets its answer; the setImmediate handoff is given no such promise.
NextLive ==
    \/ \E data \in CreateInputs : CreateWebhook(data, DispatchWebhooks)
    \/ \E u \in Users, ty \in EmittedTypes, p \in Payloads :
          TriggerEvent(u, ty, p, DispatchEvents)
    \/ \E ok \in BOOLEAN : QueueWebhookEvent(ok)
    \/ \E t \in TaskIds : SendRequest(t)
    \/ \E t \in TaskIds, code \in ResponseCodes \cup {TransportError} : HttpResponse(t, code)
    \/ \E t \in TaskIds : UpdateStats(t)
    \/ \E s \in 1..NumSweeps : RetryFailedEvents(s)
    \/ Tick

SpecLive ==
    /\ Init
    /\ [][NextLive]_vars
    /\ WF_vars(\E s \in 1..NumSweeps : RetryFailedEvents(s))
    /\ WF_vars(\E t \in SweepIds : SendRequest(t))
    /\ WF_vars(\E t \in TaskIds, code \in ResponseCodes \cup {TransportError} :
                  HttpResponse(t, code))
    /\ WF_vars(\E t \in TaskIds : UpdateStats(t))
    /\ WF_vars(Tick)

\* Deliveries to one webhook that is already stored when the service starts:
\* a document the schema allows, retryEnabled being a stored field that no
\* route sets.  One emission, the handoff send and one sweep at a time, the
\* receiver answering with any class of status.
StoredWebhooks ==
    { [NewWebhook("t1", <<"https", "h1">>, {"sms.delivered"}, 1, rc, MinRetryBackoffMs)
          EXCEPT !.retryEnabled = en] : rc \in {2, 5}, en \in BOOLEAN }

InitDeliver ==
    /\ \E doc \in StoredWebhooks : webhooks = [w \in {1} |-> doc]
    /\ webhookIds = 1
    /\ webhookEvents = <<>>
    /\ secrets = 1
    /\ now = 0
    /\ emit = IdleEmit
    /\ tasks = [t \in TaskIds |-> IdleTask]
    /\ sweepQ = [s \in 1..NumSweeps |-> <<>>]
    /\ reqs = [e \in 1..MaxEvents |-> 0]
    /\ oks = [e \in 1..MaxEvents |-> 0]
    /\ lastAdmin = IdleAdmin
    /\ adminCalls = 0

NextDeliver ==
    \/ \E ty \in EmittedTypes, p \in Payloads : TriggerEvent("t1", ty, p, DispatchEvents)
    \/ QueueWebhookEvent(TRUE)
    \/ \E t \in {Imm(1), Sweep(1)} : SendRequest(t)
    \/ \E t \in {Imm(1), Sweep(1)}, code \in FinalStatusCodes \cup {TransportError} :
          HttpResponse(t, code)
    \/ \E t \in {Imm(1), Sweep(1)} : UpdateStats(t)
    \/ RetryFailedEvents(1)
    \/ Tick

SpecDeliver == InitDeliver /\ [][NextDeliver]_vars

\* The create and update routes with bodies that the schema accepts and
\* bodies that it does not.
ValidCreate ==
    [username |-> "t1", url |-> <<"https", "h1">>, hasEvents |-> TRUE,
     events |-> {"sms.delivered"}, retryCount |-> 3, retryBackoffMs |-> 5000]

CreateBodies ==
    {ValidCreate}
    \cup {[ValidCreate EXCEPT !.url = u] : u \in {<<>>, <<"ftp", "h1">>, <<"https", "">>}}
    \cup {[ValidCreate EXCEPT !.retryCount = n] : n \in {0, 10, 11}}
    \cup {[ValidCreate EXCEPT !.retryBackoffMs = n] : n \in {999, 1000, 3600001}}

UpdateBodies ==
    {[retryCount |-> 5], [retryCount |-> 11], [retryBackoffMs |-> 999],
     [url |-> <<"ftp", "h1">>], [url |-> <<"http", "h2">>]}

NextValidate ==
    \/ \E u \in Users, data \in CreateBodies : CreateRoute(u, data)
    \/ \E u \in Users, w \in 1..NumWebhooks, updates \in UpdateBodies :
          UpdateRoute(u, w, updates)
    \/ \E u \in Users, w \in 1..NumWebhooks : GetRoute(u, w)

SpecValidate == Init /\ [][NextValidate]_vars

----------------------------------------------------------------------------
\* Properties

Rows == 1..Len(webhookEvents)

\* No call of sendWebhookEvent holds row e or is still to be made for it.
Settled(e) ==
    /\ \A t \in TaskIds : tasks[t].ev = <<>> \/ tasks[t].ev[1].id # e
    /\ \A s \in 1..NumSweeps : \A i \in 1..Len(sweepQ[s]) : sweepQ[s][i].ev[1].id # e

\* The requests on the wire.
InFlight == {t \in TaskIds : tasks[t].pc = "http"}

\* The key a signature was computed with.
KeyOf(signature) == signature[2]

\* The retry base values a webhook can hold.
BackoffValues ==
    {createWebhookDoc(d).retryBackoffMs : d \in CreateInputs}

\* C1 as stated: when triggerEvent returns, there is one new row for each of
\* the N subscriptions that matched (the caller's, active, subscribed to the
\* event type), each inserted with status pending and attempts 0.
C1_EmitPersistsAllMatching ==
    emit.pc = "returned" =>
        /\ Len(emit.inserted) = Cardinality(emit.matching)
        /\ \A i \in 1..Len(emit.inserted) :
              /\ emit.inserted[i].row.status = "pending"
              /\ emit.inserted[i].row.attempts = 0

\* C1 amended: when triggerEvent returns after a lookup that did not throw,
\* every matching subscription has either its own new row, inserted with
\* status pending, attempts 0 and the subscription's retryCount as
\* maxAttempts, or an insert that threw and was swallowed; there are N rows
\* exactly when no insert threw, and no row belongs to a subscription that
\* did not match.  After a lookup that threw there is no new row.
C1_EmitPersistsEachInsert ==
    emit.pc = "returned" =>
        /\ Len(emit.inserted) + emit.errors
              = IF emit.lookupFailed THEN 0 ELSE Cardinality(emit.matching)
        /\ \A i \in 1..Len(emit.inserted) :
              /\ emit.inserted[i].id \in Rows
              /\ emit.inserted[i].row.status = "pending"
              /\ emit.inserted[i].row.attempts = 0
              /\ emit.inserted[i].row.webhookId \in emit.matching
              /\ emit.inserted[i].row.eventType = emit.eventType
              /\ emit.inserted[i].row.payload = emit.payload
              /\ webhookEvents[emit.inserted[i].id].webhookId
                    = emit.inserted[i].row.webhookId
              /\ \A j \in 1..Len(emit.inserted) :
                    i # j => emit.inserted[i].row.webhookId # emit.inserted[j].row.webhookId

\* C1 witness: an emission that matched two subscriptions has returned with
\* both rows inserted.
C1_Witness ==
    /\ emit.pc = "returned"
    /\ Cardinality(emit.matching) = 2
    /\ Len(emit.inserted) = 2
    /\ emit.errors = 0

\* C2: every stored row has attempts <= maxAttempts.
C2_AttemptsWithinMax ==
    \A e \in Rows : webhookEvents[e].attempts <= webhookEvents[e].maxAttempts

\* C2 witness: a row has used up its attempts while two sweeps sent it at
\* once (more requests than maxAttempts reached the receiver).
C2_Witness ==
    \E e \in Rows :
        /\ webhookEvents[e].attempts = webhookEvents[e].maxAttempts
        /\ reqs[e] > webhookEvents[e].maxAttempts

\* C3 as stated: a row that ends in success got exactly one request answered
\* with success, and at most maxAttempts requests in all.
C3_SuccessHasOneAcceptedRequest ==
    \A e \in Rows :
        (Settled(e) /\ webhookEvents[e].status = "success") =>
            /\ oks[e] = 1
            /\ reqs[e] <= webhookEvents[e].maxAttempts

\* C4 as stated: a row that ends in failed never had a request answered with
\* success.
C4_FailedHasNoAcceptedRequest ==
    \A e \in Rows :
        (Settled(e) /\ webhookEvents[e].status = "failed") => oks[e] = 0

\* C5 as stated: every stored row eventually reaches success or failed, with
\* the sweep running and every request answered, whether or not the handoff
\* scheduled after the insert ever runs.
C5_EveryRowEventuallyTerminal ==
    \A e \in 1..MaxEvents :
        (e \in Rows) ~> (e \in Rows /\ webhookEvents[e].status \in {"success", "failed"})

\* C6 as stated: the X-Webhook-Signature of every request is the HMAC, under
\* the secret it was signed with, of the body the request carries.
C6_SignatureCoversBody ==
    \A t \in InFlight :
        tasks[t].req[1].signature
            = generateSignature(tasks[t].req[1].body, tasks[t].wh[1].doc.secret)

\* C7 as stated: every request is signed with the secret the subscription
\* held in the store when the request was sent, so never with a secret that
\* a completed rotation has replaced.
C7_SignedWithStoredSecret ==
    \A t \in InFlight :
        tasks[t].seen[1].secret # 0 =>
            KeyOf(tasks[t].req[1].signature) = tasks[t].seen[1].secret

\* C8: an admin call on a webhook stored under another username is answered
\* 404 or 403 with no data and leaves the collection as it was; the list
\* holds only the caller's webhooks.
C8_TenantIsolation ==
    /\ (lastAdmin.op \notin {"none", "list"}
          /\ lastAdmin.owner # "" /\ lastAdmin.owner # lastAdmin.caller) =>
            /\ lastAdmin.code \in {403, 404}
            /\ lastAdmin.data = <<>>
            /\ ~lastAdmin.changed
    /\ lastAdmin.op = "list" =>
            \A i \in 1..Len(lastAdmin.data) :
                lastAdmin.data[i].doc.username = lastAdmin.caller

\* C8 witness: a caller asked to rotate the secret of another user's webhook
\* and was refused.
C8_Witness ==
    /\ lastAdmin.op = "rotate"
    /\ lastAdmin.owner # ""
    /\ lastAdmin.owner # lastAdmin.caller
    /\ lastAdmin.code = 403

\* C9 as stated: a request for a rescheduled row is never sent before the
\* nextRetryTime the row holds in the store.
C9_NeverBeforeNextRetryTime ==
    \A t \in InFlight :
        (tasks[t].seen[1].status = "pending" /\ tasks[t].seen[1].nextRetryTime # NoTime) =>
            tasks[t].req[1].sentAt >= tasks[t].seen[1].nextRetryTime

\* C10 as stated: the delay scheduled after the k-th failed attempt is
\* min(retryBackoffMs * 2^(k-1), one hour) for a retryBackoffMs a webhook can
\* hold, so never more than one hour.
C10_RetryDelayCapped ==
    \A e \in Rows :
        (webhookEvents[e].status = "pending" /\ webhookEvents[e].attempts >= 1) =>
            \E b \in BackoffValues :
                webhookEvents[e].nextRetryTime - webhookEvents[e].lastAttemptTime
                    = Min(b * Pow2(webhookEvents[e].attempts - 1), OneHourMs)

\* The three counters of a webhook's stats add up.
StatsAddUp(stats) == stats.successfulCalls + stats.failedCalls = stats.totalCalls

\* No counter of the stats `after` is below its value in `before`.
StatsNotBelow(after, before) ==
    /\ after.totalCalls >= before.totalCalls
    /\ after.successfulCalls >= before.successfulCalls
    /\ after.failedCalls >= before.failedCalls

\* C11: for every stored webhook, successfulCalls + failedCalls = totalCalls
\* in every state, and no step lowers any of the three counters of a webhook
\* that is still stored after it.
C11_StatsMonotoneAndAddUp ==
    /\ [](\A w \in DOMAIN webhooks : StatsAddUp(webhooks[w].stats))
    /\ [][\A w \in DOMAIN webhooks \cap DOMAIN webhooks' :
            StatsNotBelow(webhooks'[w].stats, webhooks[w].stats)]_vars

\* C11 witness: a webhook has counted a failed and a successful call.
C11_Witness ==
    \E w \in DOMAIN webhooks :
        /\ webhooks[w].stats.successfulCalls >= 1
        /\ webhooks[w].stats.failedCalls >= 1

\* The sendWebhookEvent calls that have classified their attempt and saved
\* the row, and have their stats update left to do.
Classified == {t \in TaskIds : tasks[t].pc = "stats"}

\* A status the data model calls terminal: 4xx other than 408, 425 and 429.
Terminal4xx(code) == code \in 400..499 /\ code \notin {408, 425, 429}

\* C12 as stated: a row whose last attempt was answered with a terminal 4xx
\* status is failed, whatever attempts it has left, and no request is sent
\* for a row that the store shows with such an answer.
C12_Terminal4xxFailsAtOnce ==
    /\ \A e \in Rows :
          Terminal4xx(webhookEvents[e].lastAttemptError) =>
              webhookEvents[e].status = "failed"
    /\ \A t \in InFlight : ~Terminal4xx(tasks[t].seen[1].lastAttemptError)

\* C13 as stated: an attempt is marked success exactly when the final status
\* of its request is in [200,400); anything else, a transport error
\* included, is a failed attempt.
C13_SuccessIffStatusBelow400 ==
    \A t \in Classified :
        (tasks[t].ev[1].doc.status = "success") <=> (tasks[t].code \in 200..399)

\* The rows of webhooks that are stored with retryEnabled = false.
RetryDisabledRows ==
    {e \in Rows : /\ webhookEvents[e].webhookId \in DOMAIN webhooks
                  /\ ~webhooks[webhookEvents[e].webhookId].retryEnabled}

C15_AttemptsCountsRequests ==
    \A e \in Rows : Settled(e) => webhookEvents[e].attempts = reqs[e]

\* The requests sent for the rows of the set S, added up.
RECURSIVE SumReqs(_)
SumReqs(S) ==
    IF S = {} THEN 0
    ELSE LET e == CHOOSE x \in S : TRUE IN reqs[e] + SumReqs(S \ {e})

\* The rows that belong to webhook w.
RowsOf(w) == {e \in Rows : webhookEvents[e].webhookId = w}

\* C16: an emission reaches only the webhooks whose events hold its type:
\* every row, and every send in progress, carries an event type that its
\* webhook subscribes to, and a webhook's stats count no more calls than
\* requests were sent for its own rows; so an emission of a type outside a
\* webhook's events gives it no row, no POST and no change of stats.
C16_UnsubscribedTypeTouchesNothing ==
    /\ \A e \in Rows :
          webhookEvents[e].webhookId \in DOMAIN webhooks =>
              webhookEvents[e].eventType \in webhooks[webhookEvents[e].webhookId].events
    /\ \A t \in TaskIds :
          (tasks[t].pc # "idle" /\ tasks[t].wh # <<>>) =>
              tasks[t].ev[1].doc.eventType \in tasks[t].wh[1].doc.events
    /\ \A w \in DOMAIN webhooks :
          webhooks[w].stats.totalCalls <= SumReqs(RowsOf(w))

\* C16 witness: sms.failed was emitted for a user who has an active webhook
\* subscribed to sms.delivered only and another one that matched; the call
\* has returned, the other webhook has its row and this one has none and
\* untouched stats.
C16_Witness ==
    /\ emit.pc = "returned"
    /\ emit.eventType = "sms.failed"
    /\ Len(emit.inserted) = 1
    /\ \E w \in DOMAIN webhooks :
          /\ webhooks[w].username = emit.username
          /\ webhooks[w].isActive
          /\ webhooks[w].events = {"sms.delivered"}
          /\ RowsOf(w) = {}
          /\ webhooks[w].stats = NoStats

\* No stored row is pending with a nextRetryTime that has come.
NothingDue ==
    \A e \in Rows :
        \/ webhookEvents[e].status # "pending"
        \/ webhookEvents[e].nextRetryTime = NoTime
        \/ webhookEvents[e].nextRetryTime > now

\* C17: a call of retryFailedEvents made when no row is due returns with both
\* collections as they were and without having sent anything; a second call
\* right after it finds the same store and does the same.
C17_SweepWithNothingDueChangesNothing ==
    [][\A s \in 1..NumSweeps :
          (NothingDue /\ SweepFree(s) /\ tasks'[Sweep(s)] # tasks[Sweep(s)]) =>
              /\ tasks'[Sweep(s)].pc = "returned"
              /\ webhooks' = webhooks
              /\ webhookEvents' = webhookEvents
              /\ sweepQ' = sweepQ
              /\ reqs' = reqs]_vars

\* C17 witness: a call of retryFailedEvents has returned while a row waits
\* for a nextRetryTime that has not come yet.
C17_Witness ==
    /\ \E s \in 1..NumSweeps : tasks[Sweep(s)].pc = "returned"
    /\ \E e \in Rows :
          /\ webhookEvents[e].status = "pending"
          /\ webhookEvents[e].nextRetryTime > now
    /\ NothingDue

\* C18: triggerEvent throws nothing to its caller, whether the lookup threw,
\* an insert threw, or a delivery failed; and a failed delivery is on record
\* in its row (attempts counted, lastAttemptError set) by the time the send
\* gets to its stats update.
C18_EmitNeverThrows ==
    /\ emit.thrown = ""
    /\ \A t \in Classified :
          ~AxiosResolves(tasks[t].code) =>
              /\ webhookEvents[tasks[t].ev[1].id].attempts >= 1
              /\ webhookEvents[tasks[t].ev[1].id].lastAttemptError = tasks[t].code

\* C18 witness: an emission for two webhooks has returned after one insert
\* threw, and the delivery of the row that was inserted has failed.
C18_Witness ==
    /\ emit.pc = "returned"
    /\ emit.errors = 1
    /\ Len(emit.inserted) = 1
    /\ webhookEvents[emit.inserted[1].id].lastAttemptError # NoError

\* C19: a call of the test route, whether the probe is answered with success
\* or fails, leaves the Webhook collection (stats included) and the
\* WebhookEvent collection as they were.
C19_TestProbeStoresNothing ==
    [][(lastAdmin'.op = "test" /\ lastAdmin' # lastAdmin) =>
          /\ webhooks' = webhooks
          /\ webhookEvents' = webhookEvents]_vars

\* C19 witness: the owner's probe of a webhook that has rows was sent and
\* failed.
C19_Witness ==
    /\ lastAdmin.op = "test"
    /\ lastAdmin.code = 200
    /\ ~lastAdmin.data[1].success
    /\ RowsOf(lastAdmin.webhookId) # {}

\* A step of updateWebhook: an admin call that neither drew a new secret nor
\* removed a webhook.
UpdateStep ==
    /\ adminCalls' # adminCalls
    /\ secrets' = secrets
    /\ DOMAIN webhooks' = DOMAIN webhooks

\* A step in which a sendWebhookEvent call for webhook w does its stats update.
StatsStepFor(w) ==
    \E t \in Classified : tasks[t].wh[1].id = w /\ tasks'[t].pc # "stats"

\* C20: updateWebhook leaves secret, stats and username of every webhook as
\* they were, whatever keys the patch holds; and the stats of a stored
\* webhook change only in the stats update of a delivery attempt to it.
C20_UpdateKeepsSecretStatsOwner ==
    [][/\ UpdateStep =>
            \A w \in DOMAIN webhooks :
                /\ webhooks'[w].secret = webhooks[w].secret
                /\ webhooks'[w].stats = webhooks[w].stats
                /\ webhooks'[w].username = webhooks[w].username
       /\ \A w \in DOMAIN webhooks \cap DOMAIN webhooks' :
            webhooks'[w].stats # webhooks[w].stats => StatsStepFor(w)]_vars

\* C20 witness: a patch that names secret, stats and username was applied
\* (its retryCount was taken over) to a webhook that has counted calls.
C20_Witness ==
    \E w \in DOMAIN webhooks :
        /\ adminCalls > 0
        /\ webhooks[w].retryCount = 1
        /\ webhooks[w].stats.totalCalls >= 1

\* A create or update body that breaks a constraint of the data model: a url
\* that is not http or https, an empty or unknown set of events, a retryCount
\* outside [1,10], a retryBackoffMs outside [1000, 3600000].  (In a create
\* body retryCount and retryBackoffMs 0 stand for the key left out.)
ConstraintViolating(input) ==
    \/ /\ "url" \in DOMAIN input
       /\ input.url = <<>> \/ input.url[1] \notin {"http", "https"}
    \/ /\ "events" \in DOMAIN input
       /\ "hasEvents" \in DOMAIN input => input.hasEvents
       /\ input.events = {} \/ ~(input.events \subseteq EventEnum)
    \/ /\ "retryCount" \in DOMAIN input
       /\ input.retryCount # 0
       /\ input.retryCount \notin 1..10
    \/ /\ "retryBackoffMs" \in DOMAIN input
       /\ input.retryBackoffMs # 0
       /\ input.retryBackoffMs \notin 1000..3600000

\* C21 as stated: a create, or an update of a webhook of the caller's, whose
\* body breaks a constraint is answered 400 and leaves the Webhook collection
\* as it was.
C21_InvalidInputAnswered400 ==
    (/\ lastAdmin.op \in {"create", "update"}
     /\ lastAdmin.op = "update" => lastAdmin.owner = lastAdmin.caller
     /\ ConstraintViolating(lastAdmin.input)) =>
        /\ lastAdmin.code = 400
        /\ ~lastAdmin.changed

\* What the statistics query is to return for a webhook: its stats and the
\* numbers of its rows by status.
StatsAnswer(w) ==
    [stats |-> webhooks[w].stats,
     successCount |-> Cardinality({e \in RowsOf(w) : webhookEvents[e].status = "success"}),
     failedCount |-> Cardinality({e \in RowsOf(w) : webhookEvents[e].status = "failed"}),
     pendingCount |-> Cardinality({e \in RowsOf(w) : webhookEvents[e].status = "pending"})]

\* C22 as stated: the statistics query of the owner on an existing webhook is
\* answered 200 with the webhook's stats and the counts of its rows in
\* success, failed and pending.
C22_OwnerStatsAnswered ==
    [][(/\ lastAdmin'.op = "stats"
        /\ lastAdmin' # lastAdmin
        /\ lastAdmin'.owner = lastAdmin'.caller) =>
          /\ lastAdmin'.code = 200
          /\ lastAdmin'.data = <<StatsAnswer(lastAdmin'.webhookId)>>]_vars

\* C23 as stated: no two calls of sendWebhookEvent (of two sweeps, or of a
\* sweep and the handoff after an emit) have a request in flight for the same
\* row, both having read the same stored attempts.
C23_NoRowSentTwiceAtOnce ==
    \A t1, t2 \in TaskIds :
        (/\ t1 # t2
         /\ tasks[t1].pc = "http"
         /\ tasks[t2].pc = "http"
         /\ tasks[t1].ev[1].id = tasks[t2].ev[1].id) =>
            tasks[t1].ev[1].doc.attempts # tasks[t2].ev[1].doc.attempts

\* C24 as stated: once the stored status of a row is success or failed, no
\* step (a late response of an overlapping send, a sweep, an update or delete
\* of the webhook) changes its status or its attempts.
C24_TerminalRowsStay ==
    [][\A e \in Rows :
          webhookEvents[e].status \in {"success", "failed"} =>
              /\ webhookEvents'[e].status = webhookEvents[e].status
              /\ webhookEvents'[e].attempts = webhookEvents[e].attempts]_vars

\* C25 as stated: a call of sendWebhookEvent never ends (by a return or by an
\* exception) without a request sent or the row saved as success, as failed,
\* or as pending with a new nextRetryTime; this holds also for a row whose
\* webhook was deleted before the sweep took it.
C25_SendAlwaysSavesRow ==
    [][\A t \in TaskIds :
          (tasks[t].pc = "start" /\ tasks'[t] # tasks[t]) =>
              \/ tasks'[t].pc = "http"
              \/ LET e == tasks[t].ev[1].id IN
                 /\ webhookEvents'[e] # webhookEvents[e]
                 /\ \/ webhookEvents'[e].status \in {"success", "failed"}
                    \/ /\ webhookEvents'[e].status = "pending"
                       /\ webhookEvents'[e].nextRetryTime # webhookEvents[e].nextRetryTime]_vars

\* C26 as stated: a call of retryFailedEvents at time now selects exactly the
\* rows that are pending with no nextRetryTime or with one that has come: a
\* fresh row never sent is selected, and no row that is success, failed or
\* scheduled for later is.
C26_SweepSelectsDueAndFreshRows ==
    [][\A s \in 1..NumSweeps :
          (SweepFree(s) /\ tasks'[Sweep(s)] # tasks[Sweep(s)]) =>
              (IF tasks'[Sweep(s)].ev = <<>> THEN {} ELSE {tasks'[Sweep(s)].ev[1].id})
              \cup {sweepQ'[s][i].ev[1].id : i \in 1..Len(sweepQ'[s])}
                = {e \in Rows :
                     /\ webhookEvents[e].status = "pending"
                     /\ \/ webhookEvents[e].nextRetryTime = NoTime
                        \/ webhookEvents[e].nextRetryTime <= now}]_vars

\* The requests answered with success for the rows of the set S, added up.
RECURSIVE SumOks(_)
SumOks(S) ==
    IF S = {} THEN 0
    ELSE LET e == CHOOSE x \in S : TRUE IN oks[e] + SumOks(S \ {e})

\* No call of sendWebhookEvent for webhook w has a request out or a stats
\* update left to do.
AttemptsCompleted(w) ==
    \A t \in TaskIds : tasks[t].pc \in {"http", "stats"} => tasks[t].wh[1].id # w

\* C27: once the attempts in progress for a stored webhook have completed,
\* its totalCalls is the number of requests that were sent for its rows, its
\* successfulCalls the number of those answered with success and its
\* failedCalls the number of the others, overlapping sends included.
C27_NoStatsIncrementLost ==
    \A w \in DOMAIN webhooks :
        AttemptsCompleted(w) =>
            /\ webhooks[w].stats.totalCalls = SumReqs(RowsOf(w))
            /\ webhooks[w].stats.successfulCalls = SumOks(RowsOf(w))
            /\ webhooks[w].stats.failedCalls = SumReqs(RowsOf(w)) - SumOks(RowsOf(w))

\* C27 witness: the attempts of a webhook have completed after two sends of
\* the same row overlapped (more requests than maxAttempts), one of them
\* answered with success.
C27_Witness ==
    \E w \in DOMAIN webhooks :
        /\ AttemptsCompleted(w)
        /\ \E e \in RowsOf(w) : reqs[e] > webhookEvents[e].maxAttempts /\ oks[e] >= 1
        /\ webhooks[w].stats.failedCalls >= 1

\* C28 as stated: the stats update that follows an attempt leaves in
\* lastCallStatus the status code of the response the attempt received, 503
\* and 404 included, and -1 only when there was no response.
C28_LastCallStatusIsResponseStatus ==
    [][\A t \in Classified :
          (tasks'[t] # tasks[t] /\ tasks[t].wh[1].id \in DOMAIN webhooks') =>
              webhooks'[tasks[t].wh[1].id].stats.lastCallStatus = tasks[t].code]_vars

\* C29 as stated: a stored row that is failed has attempts >= maxAttempts, and
\* a stored row that is pending with a nextRetryTime has
\* 1 <= attempts < maxAttempts, also after overlapping sends saved their
\* copies of the row.
C29_StatusAgreesWithAttempts ==
    \A e \in Rows :
        /\ webhookEvents[e].status = "failed" =>
              webhookEvents[e].attempts >= webhookEvents[e].maxAttempts
        /\ (webhookEvents[e].status = "pending" /\ webhookEvents[e].nextRetryTime # NoTime) =>
              /\ webhookEvents[e].attempts >= 1
              /\ webhookEvents[e].attempts < webhookEvents[e].maxAttempts

====
